---- MODULE Spec2Model ----
(***************************************************************************)
(* Fee Submission Portal (src/src/App.jsx): the form (admission number,    *)
(* selected student, amount), the request queue and the queue processor    *)
(* that submits one request at a time to the sheet endpoint.               *)
(*                                                                         *)
(* React state is modelled by one variable per useState cell.  A state     *)
(* update and the commit that follows it are one step; the passive effect  *)
(* of lines 105-112 is a step of its own, due when one of its dependencies *)
(* (requestQueue, isProcessing) changed in the last commit.  React flushes *)
(* a due effect before it renders the next state update, so no handler and *)
(* no continuation of processRequest commits while the effect is due.      *)
(* An async processRequest is a record in `inflight` whose pc says which   *)
(* await it is suspended at.                                               *)
(*                                                                         *)
(* Spec and FairSpec run the portal from its mounted state; LookupSpec     *)
(* runs it from any short text in the admission number cell; ConvertSpec   *)
(* runs the converter page (src/src/pages/convert.jsx) on any short sheet. *)
(***************************************************************************)
EXTENDS Integers, Sequences, FiniteSets, TLC

\* ------------------------------------------------------------------ bounds
MaxQueue == 2      \* accepted submits in one run
MaxClock == 1      \* largest value Date.now() takes in one run
MaxRows == 4       \* most rows of an uploaded sheet (ConvertSpec)
MaxKey == 3        \* longest text looked up in the roster (LookupSpec)

\* ------------------------------------------------------------ JS values
Undefined == "<undefined>"     \* a missing key / the value undefined
Null == 0                      \* student === null (no roster index)

Whitespace == {" "}

Min(S) == CHOOSE x \in S : \A y \in S : x <= y

\* String.prototype.trim on a string given as a tuple of characters
RECURSIVE TrimStart(_)
TrimStart(s) ==
    IF s # <<>> /\ Head(s) \in Whitespace THEN TrimStart(Tail(s)) ELSE s

RECURSIVE TrimEnd(_)
TrimEnd(s) ==
    IF s # <<>> /\ s[Len(s)] \in Whitespace
    THEN TrimEnd(SubSeq(s, 1, Len(s) - 1))
    ELSE s

Trim(s) == TrimEnd(TrimStart(s))

Digit == <<"0", "1", "2", "3", "4", "5", "6", "7", "8", "9">>

\* Number.prototype.toString for a natural number: no leading zeros
RECURSIVE Digits(_)
Digits(n) ==
    IF n < 10 THEN <<Digit[n + 1]>> ELSE Digits(n \div 10) \o <<Digit[(n % 10) + 1]>>

\* String(v) for a JSON value that is a number or a string
String(v) == IF v.type = "number" THEN Digits(v.num) ELSE v.str

Num(n) == [type |-> "number", num |-> n, str |-> <<>>]
Str(s) == [type |-> "string", num |-> 0, str |-> s]

\* The bundled roster: one record whose admissionNo is a JSON string and one
\* whose admissionNo is a JSON number.
students ==
    << [admissionNo |-> Str(<<"1", "2">>), name |-> "Binu", class |-> "6A"],
       [admissionNo |-> Num(7), name |-> "Asha", class |-> "5B"] >>

\* What the user types into the admission number input (it starts, and is
\* reset to, the empty string).  The input is type="number" (line 204): its
\* value holds no whitespace, and keeps a leading zero as typed.
AdmissionInputs == { <<"7">>, <<"0", "7">> }

\* What the user types into the amount input (it starts, and is reset to, the
\* empty string)
AmountInputs == { "500" }

\* Parsed response bodies of the sheet endpoint
Responses ==
    { [status |-> "success", message |-> "OK"],
      [status |-> "failed", message |-> "Rejected"],
      [status |-> Undefined, message |-> "Rejected"] }

FallbackMessage == "Failed to submit payment."

\* new Date().toLocaleTimeString(): the clock reading cut to whole seconds
\* (the model takes two clock values to the second)
LocaleTimeString(t) == t \div 2

VARIABLES
    admissionNo,    \* useState("")     line 6
    student,        \* useState(null)   line 7: Null or an index of students
    amount,         \* useState("")     line 8
    requestQueue,   \* useState([])     line 9
    isProcessing,   \* useState(false)  line 10
    effectDue,      \* the queue processor effect has to run (a dependency changed)
    inflight,       \* the suspended processRequest calls
    now,            \* the clock Date.now() reads
    started,        \* history: queue positions of nextRequest, one per call started
    outcome,        \* history: how the call completed, if the last step completed one
    event,          \* history: "search" or "submit" if the last step was that handler
    lookups,        \* history: successful lookups so far, counted up to MaxQueue
    excelJson,      \* convert.jsx line 22: the rows of the uploaded sheet
    jsonData,       \* convert.jsx line 6: useState(null)
    error           \* convert.jsx line 7: useState(null)

vars == << admissionNo, student, amount, requestQueue, isProcessing,
           effectDue, inflight, now, started, outcome, event, lookups,
           excelJson, jsonData, error >>

\* the state of the converter page
converter == << excelJson, jsonData, error >>

form == << admissionNo, student, amount >>

\* null in the state of the converter page
NoData == "<null>"

\* an array of rows or of records held in a state cell, and null in its place
Rows(r) == [null |-> FALSE, rows |-> r]
NoRows == [null |-> TRUE, rows |-> <<>>]

\* a step that is neither handleSearch nor handleSubmit, on the portal page
NoFormEvent == event' = "none" /\ UNCHANGED << lookups, converter >>

NoOutcome == [kind |-> "none", target |-> 0, requestId |-> 0,
              data |-> [status |-> Undefined, message |-> Undefined]]

Init ==
    /\ admissionNo = <<>>
    /\ student = Null
    /\ amount = ""
    /\ requestQueue = <<>>
    /\ isProcessing = FALSE
    /\ effectDue = TRUE
    /\ inflight = <<>>
    /\ now = 0
    /\ started = <<>>
    /\ outcome = NoOutcome
    /\ event = "none"
    /\ lookups = 0
    /\ excelJson = NoRows
    /\ jsonData = NoRows
    /\ error = NoData

\* ------------------------------------------------------------- the clock
\* Date.now() reads the system clock, which has a finite resolution and can be
\* set back: two reads give the same value unless the clock moved on in
\* between, however many steps of the program lie between them.
Tick ==
    /\ now < MaxClock
    /\ now' = now + 1
    /\ outcome' = NoOutcome
    /\ NoFormEvent
    /\ UNCHANGED << form, requestQueue, isProcessing, effectDue, inflight, started >>

\* React has run the effects of the last commit
EffectsFlushed == ~effectDue

\* -------------------------------------------------------------- the form
ChangeAdmissionNo ==
    /\ EffectsFlushed
    /\ \E v \in AdmissionInputs : admissionNo' = v
    /\ outcome' = NoOutcome
    /\ NoFormEvent
    /\ UNCHANGED << student, amount, requestQueue, isProcessing, effectDue,
                    inflight, now, started >>

\* {student && (<form onSubmit={handleSubmit}> ... </form>)}: the amount input
\* and the submit button exist only while a student is selected
FormRendered == student # Null

ChangeAmount ==
    /\ EffectsFlushed
    /\ FormRendered
    /\ \E v \in AmountInputs : amount' = v
    /\ outcome' = NoOutcome
    /\ NoFormEvent
    /\ UNCHANGED << admissionNo, student, requestQueue, isProcessing, effectDue,
                    inflight, now, started >>

\* students.find(s => String(s.admissionNo).startsWith(key))
FindStudentPartial(key) ==
    LET hits == { i \in 1..Len(students) :
                    /\ Len(key) <= Len(String(students[i].admissionNo))
                    /\ SubSeq(String(students[i].admissionNo), 1, Len(key)) = key }
    IN  IF hits = {} THEN Null ELSE Min(hits)

\* students.find(s => String(s.admissionNo) === key): the first match, or Null
FindStudent(key) ==
    LET hits == { i \in 1..Len(students) : String(students[i].admissionNo) = key }
    IN  IF hits = {} THEN Null ELSE Min(hits)

handleSearch ==
    /\ EffectsFlushed
    /\ student' = FindStudent(Trim(admissionNo))
    /\ outcome' = NoOutcome
    /\ event' = "search"
    /\ lookups' = IF student' # Null /\ lookups < MaxQueue THEN lookups + 1 ELSE lookups
    /\ UNCHANGED converter
    /\ UNCHANGED << admissionNo, amount, requestQueue, isProcessing, effectDue,
                    inflight, now, started >>

\* ------------------------------------------------------------- the queue
NewRequest(payload) ==
    [ id |-> now,
      admissionNo |-> payload.admissionNo,
      name |-> payload.name,
      class |-> payload.class,
      amount |-> payload.amount,
      status |-> "pending",
      timestamp |-> LocaleTimeString(now),
      message |-> Undefined ]

\* setRequestQueue(prev => [newRequest, ...prev])
addToQueueFront(payload) == requestQueue' = << NewRequest(payload) >> \o requestQueue

addToQueue(payload) == requestQueue' = Append(requestQueue, NewRequest(payload))

\* if (!student) { alert; return; }
MissingStudentOnly == student = Null

Missing == student = Null \/ amount = ""

\* the form reset without setStudent(null)
ResetFormKeepsStudent ==
    /\ admissionNo' = <<>>
    /\ student' = student
    /\ amount' = ""

\* setAdmissionNo(""); setStudent(null); setAmount("")
ResetForm ==
    /\ admissionNo' = <<>>
    /\ student' = Null
    /\ amount' = ""

handleSubmit ==
    /\ EffectsFlushed
    /\ FormRendered
    /\ outcome' = NoOutcome
    /\ event' = "submit"
    /\ UNCHANGED << lookups, converter >>
    /\ IF Missing
       THEN UNCHANGED << form, requestQueue, effectDue >>
       ELSE /\ Len(requestQueue) < MaxQueue
            /\ addToQueue([ admissionNo |-> admissionNo,
                            name |-> students[student].name,
                            class |-> students[student].class,
                            amount |-> amount ])
            /\ ResetForm
            /\ effectDue' = TRUE
    /\ UNCHANGED << isProcessing, inflight, now, started >>

\* -------------------------------------------------------- the dispatcher
Terminal == {"success", "error"}

\* requestQueue.find(req => req.status === "pending"): its position, 0 if none
FirstPending(q) ==
    LET hits == { i \in 1..Len(q) : q[i].status = "pending" }
    IN  IF hits = {} THEN 0 ELSE Min(hits)

\* requestQueue.find(req => req.id === requestId): its position, 0 if none
FindById(q, requestId) ==
    LET hits == { i \in 1..Len(q) : q[i].id = requestId }
    IN  IF hits = {} THEN 0 ELSE Min(hits)

\* prev.map(req => req.id === requestId ? { ...req, status: "loading" } : req)
SetLoading(q, requestId) ==
    [ i \in 1..Len(q) |->
        IF q[i].id = requestId THEN [q[i] EXCEPT !.status = "loading"] ELSE q[i] ]

\* prev.map(req => req.id === requestId ? { ...req, status, message } : req)
SetResult(q, requestId, status, message) ==
    [ i \in 1..Len(q) |->
        IF q[i].id = requestId
        THEN [q[i] EXCEPT !.status = status, !.message = message]
        ELSE q[i] ]

\* processRequest without setIsProcessing(true)
processRequestNoFlag(requestId, target) ==
    /\ isProcessing' = isProcessing
    /\ requestQueue' = SetLoading(requestQueue, requestId)
    /\ inflight' = Append(inflight,
                          [ requestId |-> requestId,
                            target |-> target,
                            body |-> requestQueue[FindById(requestQueue, requestId)],
                            pc |-> "fetch" ])
    /\ started' = Append(started, target)

\* processRequest up to its first await: the flag, the loading update and the
\* fetch, whose body is the request found in the queue of the render that ran
\* the effect (the loading update is not in it yet)
processRequest(requestId, target) ==
    /\ isProcessing' = TRUE
    /\ requestQueue' = SetLoading(requestQueue, requestId)
    /\ inflight' = Append(inflight,
                          [ requestId |-> requestId,
                            target |-> target,
                            body |-> requestQueue[FindById(requestQueue, requestId)],
                            pc |-> "fetch" ])
    /\ started' = Append(started, target)

\* the guard without the in-flight test
ShouldDispatchUnguarded == Len(requestQueue) > 0

\* the guard of the effect
ShouldDispatch == Len(requestQueue) > 0 /\ ~isProcessing

\* useEffect(..., [requestQueue, isProcessing])
QueueProcessor ==
    /\ effectDue
    /\ outcome' = NoOutcome
    /\ NoFormEvent
    /\ IF ShouldDispatch /\ FirstPending(requestQueue) # 0
       THEN /\ processRequest(requestQueue[FirstPending(requestQueue)].id,
                              FirstPending(requestQueue))
            /\ effectDue' = TRUE
       ELSE /\ effectDue' = FALSE
            /\ UNCHANGED << requestQueue, isProcessing, inflight, started >>
    /\ UNCHANGED << form, now >>

Remove(s, k) == SubSeq(s, 1, k - 1) \o SubSeq(s, k + 1, Len(s))

\* the call ends and the flag stays set
FinallyKeepsFlag(k) ==
    /\ isProcessing' = isProcessing
    /\ inflight' = Remove(inflight, k)
    /\ effectDue' = TRUE

\* finally { setIsProcessing(false) }: the call is over
Finally(k) ==
    /\ isProcessing' = FALSE
    /\ inflight' = Remove(inflight, k)
    /\ effectDue' = TRUE

\* data.status ? "success" : "error"
ResultStatusTruthy(data) == IF data.status # Undefined THEN "success" ELSE "error"

\* data.status === "success" ? "success" : "error"
ResultStatus(data) == IF data.status = "success" THEN "success" ELSE "error"

\* the update of the try block, lines 134-140
TryUpdate(q, requestId, data) ==
    SetResult(q, requestId, ResultStatus(data), data.message)

\* the catch block reporting the error's own text
CatchUpdateErrText(q, requestId) ==
    SetResult(q, requestId, "error", "TypeError: Failed to fetch")

\* the update of the catch block, lines 143-149
CatchUpdate(q, requestId) == SetResult(q, requestId, "error", FallbackMessage)

Completed(k, kind, data) ==
    outcome' = [ kind |-> kind, target |-> inflight[k].target,
                 requestId |-> inflight[k].requestId, data |-> data ]

\* the catch block with the flag cleared at the end of try only
CatchWithoutFinally(k) ==
    /\ EffectsFlushed
    /\ requestQueue' = CatchUpdate(requestQueue, inflight[k].requestId)
    /\ inflight' = Remove(inflight, k)
    /\ effectDue' = TRUE
    /\ Completed(k, "throw", NoOutcome.data)
    /\ NoFormEvent
    /\ UNCHANGED << form, now, started, isProcessing >>

\* catch (err) { ... } finally { ... }
Catch(k) ==
    /\ EffectsFlushed
    /\ requestQueue' = CatchUpdate(requestQueue, inflight[k].requestId)
    /\ Finally(k)
    /\ Completed(k, "throw", NoOutcome.data)
    /\ NoFormEvent
    /\ UNCHANGED << form, now, started >>

\* await fetch(...) resolves with a response
FetchResolve ==
    \E k \in 1..Len(inflight) :
        /\ EffectsFlushed
        /\ inflight[k].pc = "fetch"
        /\ inflight' = [inflight EXCEPT ![k].pc = "json"]
        /\ outcome' = NoOutcome
        /\ NoFormEvent
        /\ UNCHANGED << form, requestQueue, isProcessing, effectDue, now, started >>

\* await fetch(...) rejects (network failure)
FetchReject ==
    \E k \in 1..Len(inflight) : inflight[k].pc = "fetch" /\ Catch(k)

\* await res.json() resolves with the parsed body
JsonResolve ==
    \E k \in 1..Len(inflight), data \in Responses :
        /\ EffectsFlushed
        /\ inflight[k].pc = "json"
        /\ requestQueue' = TryUpdate(requestQueue, inflight[k].requestId, data)
        /\ Finally(k)
        /\ Completed(k, "response", data)
        /\ NoFormEvent
        /\ UNCHANGED << form, now, started >>

\* await res.json() rejects (the body is not JSON)
JsonReject ==
    \E k \in 1..Len(inflight) : inflight[k].pc = "json" /\ Catch(k)

Completion == FetchResolve \/ FetchReject \/ JsonResolve \/ JsonReject

Next ==
    \/ Tick
    \/ ChangeAdmissionNo
    \/ ChangeAmount
    \/ handleSearch
    \/ handleSubmit
    \/ QueueProcessor
    \/ FetchResolve
    \/ FetchReject
    \/ JsonResolve
    \/ JsonReject

Spec == Init /\ [][Next]_vars

\* The effect runs after every commit that changed a dependency, and every
\* started call returns or throws.
FairSpec == Spec /\ WF_vars(QueueProcessor) /\ WF_vars(Completion)

\* ------------------------------------------------- the lookup as a function
\* handleSearch reads the text held in admissionNo, whatever it is.  LookupSpec
\* starts the portal with any short text over KeyChars in that state cell
\* (blank-padded numbers, leading zeros, prefixes and extensions of the roster's
\* numbers among them) and runs the portal from there.
KeyChars == { " ", "0", "1", "2", "7" }

Keys == UNION { [1..n -> KeyChars] : n \in 0..MaxKey }

LookupInit ==
    /\ admissionNo \in Keys
    /\ student = Null
    /\ amount = ""
    /\ requestQueue = <<>>
    /\ isProcessing = FALSE
    /\ effectDue = TRUE
    /\ inflight = <<>>
    /\ now = 0
    /\ started = <<>>
    /\ outcome = NoOutcome
    /\ event = "none"
    /\ lookups = 0
    /\ excelJson = NoRows
    /\ jsonData = NoRows
    /\ error = NoData

LookupSpec == LookupInit /\ [][Next]_vars

\* ------------------------------------------------------ the converter page
\* pages/convert.jsx.  XLSX.utils.sheet_to_json(worksheet, { header: 1 }) gives
\* the sheet as an array of rows, each an array of cells; a cell is a string, a
\* number, or missing (undefined).  ConvertSpec starts the page with the rows
\* of the uploaded file in excelJson (NoRows for a file XLSX.read rejects) and
\* runs reader.onload on it.
Hole == [type |-> "undefined", num |-> 0, str |-> <<>>]

\* String(cell)
CellString(v) ==
    IF v.type = "undefined"
    THEN << "u", "n", "d", "e", "f", "i", "n", "e", "d" >>
    ELSE String(v)

AdNoLabel == Str(<< "A", "d", ".", "N", "o", "." >>)
NameLabel == Str(<< "N", "a", "m", "e" >>)
ClassLabel == Str(<< "C", "l", "a", "s", "s" >>)

\* row[k] with k counted from 0: undefined past the end of the row
At(row, k) == IF k + 1 <= Len(row) THEN row[k + 1] ELSE Hole

\* row => row[0] === 'Ad.No.' && row[1] === 'Name' && row[3] === 'Class'
IsHeader(row) ==
    At(row, 0) = AdNoLabel /\ At(row, 1) = NameLabel /\ At(row, 3) = ClassLabel

\* excelJson.findIndex(...): the 0-based index of the first header row, or -1
headerRowIndex(rows) ==
    LET hits == { i \in 1..Len(rows) : IsHeader(rows[i]) }
    IN  IF hits = {} THEN -1 ELSE Min(hits) - 1

\* excelJson.slice(headerRowIndex + 1)
dataRows(rows) == SubSeq(rows, headerRowIndex(rows) + 2, Len(rows))

\* row => row[0] != null && row[0] !== ''
KeptAnyWidth(row) == At(row, 0) # Hole /\ At(row, 0) # Str(<<>>)

\* row => row.length >= 4 && row[0] != null && row[0] !== ''
Kept(row) == Len(row) >= 4 /\ At(row, 0) # Hole /\ At(row, 0) # Str(<<>>)

\* row => ({ admissionNo: String(row[0]).trim(), name: String(row[1]).trim(),
\*           class: String(row[3]).toString().trim() })
Record(row) ==
    [ admissionNo |-> Trim(CellString(At(row, 0))),
      name |-> Trim(CellString(At(row, 1))),
      class |-> Trim(CellString(At(row, 3))) ]

\* dataRows.filter(...).map(...)
result(rows) ==
    LET kept == SelectSeq(dataRows(rows), Kept)
    IN  [ k \in 1..Len(kept) |-> Record(kept[k]) ]

ParseErrorText ==
    "Failed to parse Excel file. Please ensure it matches the expected format."

\* the rows a sheet is made of: a header row, a second wording of it with the
\* labels in columns 0, 1, 2, data rows with a number or a string in column 0,
\* a row of three columns, rows whose column 0 is empty or missing, and a
\* blank row
RowKinds ==
    { << AdNoLabel, NameLabel, Hole, ClassLabel >>,
      << AdNoLabel, NameLabel, ClassLabel, Str(<< "x" >>) >>,
      << Num(7), Str(<< " ", "A", " " >>), Hole, Str(<< "5", "B" >>) >>,
      << Str(<< "1", "2" >>), Str(<< "B" >>), Str(<< "x" >>), Num(6), Str(<< "x" >>) >>,
      << Num(7), Str(<< "A" >>), Str(<< "5", "B" >>) >>,
      << Str(<<>>), Str(<< "A" >>), Hole, Str(<< "5", "B" >>) >>,
      << Hole, Str(<< "A" >>), Hole, Str(<< "5", "B" >>) >>,
      << >> }

Sheets == UNION { [1..n -> RowKinds] : n \in 0..MaxRows }

\* the state of the portal page
portal == << form, requestQueue, isProcessing, effectDue, inflight, now,
             started, outcome, event, lookups >>

ConvertInit ==
    /\ excelJson \in { Rows(s) : s \in Sheets } \cup { NoRows }
    /\ jsonData = NoRows
    /\ error = NoData
    /\ admissionNo = <<>>
    /\ student = Null
    /\ amount = ""
    /\ requestQueue = <<>>
    /\ isProcessing = FALSE
    /\ effectDue = TRUE
    /\ inflight = <<>>
    /\ now = 0
    /\ started = <<>>
    /\ outcome = NoOutcome
    /\ event = "none"
    /\ lookups = 0

\* reader.onload: try { ... setJsonData(result); setError(null) }
\*                catch (err) { setError('Failed to parse ...') }
onload ==
    /\ IF excelJson.null
       THEN /\ error' = ParseErrorText
            /\ UNCHANGED jsonData
       ELSE /\ jsonData' = Rows(result(excelJson.rows))
            /\ error' = NoData
    /\ UNCHANGED << excelJson, portal >>

ConvertSpec == ConvertInit /\ [][onload]_vars

\* =================================================================== claims
Positions == 1..Len(requestQueue)

Loading == { i \in Positions : requestQueue[i].status = "loading" }

Pending == { i \in Positions : requestQueue[i].status = "pending" }

Done == { i \in Positions : requestQueue[i].status \in Terminal }

WasStarted(i) == \E a \in 1..Len(started) : started[a] = i

\* C1: in every reachable state at most one item of the queue has status
\* "loading".
C1_AtMostOneLoading == Cardinality(Loading) <= 1

\* C2: an item's status changes only from pending to loading and from loading
\* to success or error; a terminal status never changes again.
C2_StatusSteps ==
    [][ \A i \in Positions :
          LET old == requestQueue[i].status
              new == requestQueue'[i].status
          IN  \/ new = old
              \/ old = "pending" /\ new = "loading"
              \/ old = "loading" /\ new \in Terminal ]_vars

\* C3: no duplicate dispatch: at most one remote call is awaiting its response
\* at any time, and no item is chosen for a remote call twice, also when the
\* effect runs again while a call is outstanding.
C3_NoDuplicateDispatch ==
    /\ Len(inflight) <= 1
    /\ \A a, b \in 1..Len(started) : a # b => started[a] # started[b]

\* the effect is due again while a call is outstanding and an item is pending
C3_Witness ==
    /\ Len(inflight) = 1
    /\ isProcessing
    /\ effectDue
    /\ Pending # {}
    /\ Len(started) >= 1

C5_EveryItemCompletes ==
    \A i \in 1..MaxQueue :
        (Len(requestQueue) >= i)
            ~> (Len(requestQueue) >= i /\ requestQueue[i].status \in Terminal)

\* two items with different ids, dispatched in order, both terminal, the first
\* one failed
C5_Witness ==
    /\ Len(requestQueue) >= 2
    /\ Done = Positions
    /\ started = << 1, 2 >>
    /\ requestQueue[1].id # requestQueue[2].id
    /\ requestQueue[1].status = "error"

\* C6: any two distinct items of the queue have different ids.
C6_UniqueIds ==
    \A i, j \in Positions : i # j => requestQueue[i].id # requestQueue[j].id

\* C7: when the remote call for an item throws (fetch rejects or the body does
\* not parse), the item has status "error" and the message
\* "Failed to submit payment." once the call is over.
C7_ThrowGivesFallback ==
    outcome.kind = "throw" =>
        /\ requestQueue[outcome.target].status = "error"
        /\ requestQueue[outcome.target].message = "Failed to submit payment."

\* a call has just thrown
C7_Witness ==
    /\ outcome.kind = "throw"
    /\ outcome.target \in Positions
    /\ inflight = <<>>

\* C8: when the remote call for an item returns a parsed body, the item has
\* status "success" exactly if the body's status is "success" and "error"
\* otherwise, and its message is the body's message.
C8_ResponseDecides ==
    outcome.kind = "response" =>
        /\ requestQueue[outcome.target].status \in Terminal
        /\ (requestQueue[outcome.target].status = "success")
               <=> (outcome.data.status = "success")
        /\ requestQueue[outcome.target].message = outcome.data.message

\* a call has just returned a body whose status is a string other than "success"
C8_Witness ==
    /\ outcome.kind = "response"
    /\ outcome.data.status = "failed"
    /\ requestQueue[outcome.target].status = "error"

\* C9: after every completion of a call (response or throw) the in-flight flag
\* is clear, and an item that is pending then is started later on.
C9_FailureDoesNotStopDispatch ==
    /\ [](outcome.kind # "none" => ~isProcessing)
    /\ \A i \in 1..MaxQueue :
           (outcome.kind # "none" /\ FirstPending(requestQueue) = i) ~> WasStarted(i)

\* a call has thrown, another item was pending then and has been started since
C9_Witness ==
    /\ Len(requestQueue) >= 2
    /\ requestQueue[1].status = "error"
    /\ requestQueue[1].message = FallbackMessage
    /\ requestQueue[2].status = "loading"
    /\ WasStarted(2)

\* C10: an update made by the dispatcher changes the status and message of
\* one item only: the item's other fields, the other items and the order of
\* the queue stay as they were.
C10_UpdateFrame ==
    [][ Len(requestQueue') = Len(requestQueue) =>
          /\ Cardinality({ i \in Positions : requestQueue'[i] # requestQueue[i] }) <= 1
          /\ \A i \in Positions :
                 [requestQueue'[i] EXCEPT !.status = requestQueue[i].status,
                                          !.message = requestQueue[i].message]
                     = requestQueue[i] ]_vars

\* the fields of an item fixed at enqueue time
Identity(r) ==
    [ id |-> r.id, admissionNo |-> r.admissionNo, name |-> r.name,
      class |-> r.class, amount |-> r.amount, timestamp |-> r.timestamp ]

\* C11: the queue is the sequence of accepted enqueues in the order they were
\* made: an accepted submit appends one pending item made from the form at the
\* end, and every other step keeps the length of the queue and each position's
\* item (up to status and message).
C11_QueueIsEnqueueOrder ==
    [][ IF event' = "submit" /\ student # Null /\ amount # ""
        THEN /\ Len(requestQueue') = Len(requestQueue) + 1
             /\ SubSeq(requestQueue', 1, Len(requestQueue)) = requestQueue
             /\ LET new == requestQueue'[Len(requestQueue')]
                IN  /\ new.status = "pending"
                    /\ new.admissionNo = admissionNo
                    /\ new.name = students[student].name
                    /\ new.class = students[student].class
                    /\ new.amount = amount
        ELSE /\ Len(requestQueue') = Len(requestQueue)
             /\ \A i \in Positions :
                    Identity(requestQueue'[i]) = Identity(requestQueue[i]) ]_vars

\* an item has just been enqueued behind one whose call is in flight
C11_Witness ==
    /\ event = "submit"
    /\ Len(requestQueue) = 2
    /\ requestQueue[1].status = "loading"
    /\ requestQueue[2].status = "pending"
    /\ Len(inflight) = 1

\* C12: a submit made with no student selected or with an empty amount creates
\* no item: the queue (its items, their statuses and messages), the in-flight
\* flag and the suspended calls are what they were.
C12_RefusedSubmitChangesNothing ==
    [][ event' = "submit" /\ (student = Null \/ amount = "")
        => UNCHANGED << requestQueue, isProcessing, inflight >> ]_vars

\* a submit with an empty amount has just been refused while a call is in
\* flight (an accepted submit would have cleared the selected student)
C12_Witness ==
    /\ event = "submit"
    /\ student # Null
    /\ amount = ""
    /\ isProcessing
    /\ Loading # {}

\* C15: when the dispatcher starts the remote call for an item, the body of
\* the call is that item as the queue holds it at that moment: the id,
\* admissionNo, name, class, amount, timestamp and status of the item chosen
\* as nextRequest, read before the loading update is applied.
C15_BodyIsDispatchedItem ==
    [][ Len(inflight') = Len(inflight) + 1
        => LET call == inflight'[Len(inflight')]
           IN  call.body = requestQueue[call.target] ]_vars

\* C16: in every reachable state an item whose status is "pending" or
\* "loading" has no message; only "success" and "error" items carry one.
C16_MessageOnlyWhenDone ==
    \A i \in Positions :
        requestQueue[i].status \in { "pending", "loading" }
            => requestQueue[i].message = Undefined

\* C17: in every reachable state, if some item is "loading" then isProcessing
\* is set (so with the flag clear no item is loading).
C17_LoadingImpliesFlag == Loading # {} => isProcessing

\* an item is loading under the flag while another one waits behind it
C17_Witness ==
    /\ Cardinality(Loading) = 1
    /\ isProcessing
    /\ Pending # {}
    /\ \E k \in 1..Len(inflight) : inflight[k].pc = "json"

\* C18: an item becomes "success" or "error" only in the step that completes
\* the remote call started for that very item, and that step changes the
\* status of no other item.
C18_CompletionIsLocal ==
    [][ \A i \in Positions :
            requestQueue'[i].status # requestQueue[i].status
            /\ requestQueue'[i].status \in Terminal
                => /\ outcome'.kind # "none"
                   /\ outcome'.target = i
                   /\ WasStarted(i) ]_vars

\* C19: every item of the queue carries the admission number of the roster
\* record from which its name and class were copied.
C19_AdmissionNoOfSelectedRecord ==
    \A i \in Positions :
        \E k \in 1..Len(students) :
            /\ requestQueue[i].name = students[k].name
            /\ requestQueue[i].class = students[k].class
            /\ requestQueue[i].admissionNo = String(students[k].admissionNo)

\* C20: an accepted submit clears the admission number, the selected student
\* and the amount, and the queue never holds more items than successful
\* lookups were made (lookups counts them up to MaxQueue, which the length of
\* the queue never exceeds).
C20_OneItemPerLookup ==
    /\ [](Len(requestQueue) <= lookups)
    /\ [][ event' = "submit" /\ Len(requestQueue') > Len(requestQueue)
           => admissionNo' = <<>> /\ student' = Null /\ amount' = "" ]_vars

\* a submit has just been accepted: the form is empty and every successful
\* lookup made so far has been used by an item
C20_Witness ==
    /\ event = "submit"
    /\ Len(requestQueue) = 2
    /\ lookups = 2
    /\ student = Null
    /\ amount = ""
    /\ admissionNo = <<>>

\* text is key with blanks before and after it, and nothing else
PaddedKey(text, key) ==
    \E a, b \in 0..Len(text) :
        /\ a + Len(key) + b = Len(text)
        /\ \A i \in 1..a : text[i] = " "
        /\ \A i \in 1..Len(key) : text[a + i] = key[i]
        /\ \A i \in 1..b : text[a + Len(key) + i] = " "

\* the roster records whose admission number, as a string, is the text
\* without the blanks around it
Named(text) ==
    { k \in 1..Len(students) : PaddedKey(text, String(students[k].admissionNo)) }

\* C13: a lookup selects a record if and only if the string form of some
\* record's admissionNo equals the input without the whitespace around it (a
\* prefix, an extension or a text of equal numeric value selects nothing), the
\* selected record is such a record, and otherwise no student is selected; the
\* lookup leaves the queue, the in-flight flag, the suspended calls and the
\* input alone, and repeating it gives the same selection.
C13_LookupExact ==
    /\ [](event = "search"
            => /\ student # Null <=> Named(admissionNo) # {}
               /\ student # Null => student \in Named(admissionNo))
    /\ [][ event' = "search"
           => /\ UNCHANGED << requestQueue, isProcessing, inflight, admissionNo >>
              /\ event = "search" => student' = student ]_vars

\* a number with a blank on either side has been looked up and its record is
\* selected
C13_Witness ==
    /\ event = "search"
    /\ admissionNo = << " ", "7", " " >>
    /\ student = 2
    /\ lookups = 1

\* the rows of the sheet that are headers: "Ad.No.", "Name", "Class" in
\* columns 0, 1 and 3
Headers ==
    { i \in 1..Len(excelJson.rows) :
        /\ Len(excelJson.rows[i]) >= 4
        /\ excelJson.rows[i][1] = AdNoLabel
        /\ excelJson.rows[i][2] = NameLabel
        /\ excelJson.rows[i][4] = ClassLabel }

\* the rows after the first header that have at least 4 columns and something
\* in column 0
DataRowsAfterHeader ==
    { i \in 1..Len(excelJson.rows) :
        /\ \E h \in Headers : h < i
        /\ Len(excelJson.rows[i]) >= 4
        /\ excelJson.rows[i][1] # Hole
        /\ excelJson.rows[i][1] # Str(<<>>) }

\* C14: for a sheet with a header row, the output of the converter has exactly
\* one record for each row after the first header that has at least 4 columns
\* and a non-empty column 0, in the order of the rows (the k-th such row gives
\* the k-th record), and no other record.
C14_OneRecordPerDataRow ==
    ~jsonData.null /\ Headers # {}
        => /\ Len(jsonData.rows) = Cardinality(DataRowsAfterHeader)
           /\ \A i \in DataRowsAfterHeader :
                LET k == Cardinality({ j \in DataRowsAfterHeader : j <= i })
                    row == excelJson.rows[i]
                IN  /\ jsonData.rows[k].admissionNo = Trim(CellString(row[1]))
                    /\ jsonData.rows[k].name = Trim(CellString(row[2]))
                    /\ jsonData.rows[k].class = Trim(CellString(row[4]))

\* a sheet with a data row before the header, the header, a row of three
\* columns and a data row has been converted to one record
C14_Witness ==
    /\ ~jsonData.null
    /\ Len(excelJson.rows) = 4
    /\ Headers = { 2 }
    /\ DataRowsAfterHeader = { 4 }
    /\ Len(excelJson.rows[1]) >= 4 /\ excelJson.rows[1][1] = Num(7)
    /\ Len(excelJson.rows[3]) = 3
    /\ Len(jsonData.rows) = 1
    /\ jsonData.rows[1].admissionNo = << "1", "2" >>

====
